---- MODULE Spec2Model ----
(***************************************************************************)
(* leapcpp-rs: the dispatch bridge (native callback -> Listener method,    *)
(* src/src/listener.rs), the Controller's listener registrations           *)
(* (src/src/lib.rs) and the blocking waits of ManagedController            *)
(* (src/src/managed.rs).                                                   *)
(*                                                                         *)
(* Threads: the Event Source thread (es), which raises events and calls    *)
(* the callbacks of the registered listeners one after the other; the      *)
(* thread owning the Controller (add_listener, drop); and the waiter       *)
(* threads blocked in ManagedController::wait_until_*.                     *)
(***************************************************************************)
EXTENDS Naturals, Sequences, FiniteSets, TLC

\* ------------------------------------------------------------------ bounds
\* Cap on the number of edge-triggered events delivered (the counters are u64).
MaxEdgeEvents == 2
\* Cap on the length of the observation logs raised / calls.
MaxLog == 3

Waiters == {"w1", "w2"}
UserListeners == {"L1", "L2"}
Managed == "managed"
Free == "free"
NoOne == "none"
EsThread == "es"

\* The listener types, with their size_of and align_of: ManagedListener and
\* MyListener (examples/listener.rs) hold one Arc; Z1 and Y1 are two unit
\* structs (struct Z1; struct Y1;) and Z8 is #[repr(align(8))] struct Z8;.
ManagedType == "ManagedListener"

TypeLayout ==
  [ManagedListener |-> [size |-> 8, align |-> 8],
   MyListener |-> [size |-> 8, align |-> 8],
   Z1 |-> [size |-> 0, align |-> 1],
   Y1 |-> [size |-> 0, align |-> 1],
   Z8 |-> [size |-> 0, align |-> 8]]

UserTypes == DOMAIN TypeLayout \ {ManagedType}

\* The heap lies above the alignments of the listener types.
HeapBase == 16

\* Heap addresses of the Box<L> allocations of create_rust_listener.
Addrs == (HeapBase + 1) .. (HeapBase + Cardinality(UserListeners) + 1)

\* Box::new of a value of a zero-sized type allocates nothing: the Box is the
\* dangling address of the type, its alignment, which is no heap address.
Dangling(layout) == layout.align

\* ------------------------------------------------------------------ events
EdgeEvents == {"Frame", "Images", "DeviceChange"}
LevelEvents == {"Connect", "Disconnect", "FocusGained", "FocusLost",
                "ServiceConnect", "ServiceDisconnect"}
StreamEvents == EdgeEvents \cup LevelEvents

\* The native listener object forwards each event to one slot of the callback
\* table it was constructed with.
SlotOf ==
  [Init |-> "onInit", Connect |-> "onConnect", Disconnect |-> "onDisconnect",
   Exit |-> "onExit", Frame |-> "onFrame", FocusGained |-> "onFocusGained",
   FocusLost |-> "onFocusLost", ServiceConnect |-> "onServiceConnect",
   ServiceDisconnect |-> "onServiceDisconnect",
   DeviceChange |-> "onDeviceChange", Images |-> "onImages"]

\* The property of the native connection an event changes, and its new value.
FlipOf ==
  [Connect |-> [prop |-> "device", val |-> TRUE],
   Disconnect |-> [prop |-> "device", val |-> FALSE],
   FocusGained |-> [prop |-> "focus", val |-> TRUE],
   FocusLost |-> [prop |-> "focus", val |-> FALSE],
   ServiceConnect |-> [prop |-> "service", val |-> TRUE],
   ServiceDisconnect |-> [prop |-> "service", val |-> FALSE]]

\* ------------------------------------------------------------------ bridge
\* Mutant of Callbacks: the onInit and onExit slots are exchanged.
CallbacksInitExitSwapped ==
  [onInit |-> "cb_on_exit", onConnect |-> "cb_on_connect",
   onDisconnect |-> "cb_on_disconnect", onExit |-> "cb_on_init",
   onFrame |-> "cb_on_frame", onFocusGained |-> "cb_on_focus_gained",
   onFocusLost |-> "cb_on_focus_lost",
   onServiceConnect |-> "cb_on_service_connect",
   onServiceDisconnect |-> "cb_on_service_disconnect",
   onDeviceChange |-> "cb_on_device_change", onImages |-> "cb_on_images"]

\* create_rust_listener: the callback table handed to the native listener.
Callbacks ==
  [onInit |-> "cb_on_init", onConnect |-> "cb_on_connect",
   onDisconnect |-> "cb_on_disconnect", onExit |-> "cb_on_exit",
   onFrame |-> "cb_on_frame", onFocusGained |-> "cb_on_focus_gained",
   onFocusLost |-> "cb_on_focus_lost",
   onServiceConnect |-> "cb_on_service_connect",
   onServiceDisconnect |-> "cb_on_service_disconnect",
   onDeviceChange |-> "cb_on_device_change", onImages |-> "cb_on_images"]

\* Mutant of WrapCallbacks: cb_on_connect and cb_on_disconnect invoke each
\* other's method.
WrapCallbacksCrossed ==
  [cb_on_init |-> "on_init", cb_on_connect |-> "on_disconnect",
   cb_on_disconnect |-> "on_connect", cb_on_exit |-> "on_exit",
   cb_on_frame |-> "on_frame", cb_on_focus_gained |-> "on_focus_gained",
   cb_on_focus_lost |-> "on_focus_lost",
   cb_on_service_connect |-> "on_service_connect",
   cb_on_service_disconnect |-> "on_service_disconnect",
   cb_on_device_change |-> "on_device_change", cb_on_images |-> "on_images"]

\* wrap_callbacks!: the Listener method each extern "C" wrapper invokes.
WrapCallbacks ==
  [cb_on_init |-> "on_init", cb_on_connect |-> "on_connect",
   cb_on_disconnect |-> "on_disconnect", cb_on_exit |-> "on_exit",
   cb_on_frame |-> "on_frame", cb_on_focus_gained |-> "on_focus_gained",
   cb_on_focus_lost |-> "on_focus_lost",
   cb_on_service_connect |-> "on_service_connect",
   cb_on_service_disconnect |-> "on_service_disconnect",
   cb_on_device_change |-> "on_device_change", cb_on_images |-> "on_images"]

\* create_rust_listener(listener), for a listener of type L boxed at address
\* a: the native listener is constructed with the wrappers cb_on_*::<L>, the
\* instantiations of the eleven generic wrappers for the type L, and with
\* that address as userdata.  Nothing else of the listener is handed over.
create_rust_listener(L, a) ==
  [rust |-> a,
   sys |-> [callbacks |-> Callbacks, L |-> L, userdata |-> a]]

\* Mutant of AbortOn: the wrapper swallows the panic and returns.
AbortNever(res) == FALSE

\* The wrapper's outcome for the result of catch_unwind: process::abort() on Err.
AbortOn(res) == res = "panic"

\* ------------------------------------------------------ ManagedListener
Mutexes == {"mutex", "mutex_frame", "mutex_images", "mutex_device_change"}
CounterMutexes == {"mutex_frame", "mutex_images", "mutex_device_change"}

\* Mutant of HookCondvar: on_frame and on_images notify each other's Condvar.
HookCondvarCrossed ==
  [on_init |-> NoOne, on_exit |-> NoOne,
   on_connect |-> "device_connect", on_disconnect |-> "device_disconnect",
   on_frame |-> "images", on_focus_gained |-> "focus_gained",
   on_focus_lost |-> "focus_lost", on_service_connect |-> "service_connect",
   on_service_disconnect |-> "service_disconnect",
   on_device_change |-> "device_change", on_images |-> "frame"]

\* impl Listener for ManagedListener: the Condvar each method notifies.
HookCondvar ==
  [on_init |-> NoOne, on_exit |-> NoOne,
   on_connect |-> "device_connect", on_disconnect |-> "device_disconnect",
   on_frame |-> "frame", on_focus_gained |-> "focus_gained",
   on_focus_lost |-> "focus_lost", on_service_connect |-> "service_connect",
   on_service_disconnect |-> "service_disconnect",
   on_device_change |-> "device_change", on_images |-> "images"]

\* Mutant of HookMutex: on_frame locks and increments mutex_images.
HookMutexFrameAsImages ==
  [on_init |-> NoOne, on_exit |-> NoOne,
   on_connect |-> NoOne, on_disconnect |-> NoOne,
   on_frame |-> "mutex_images", on_focus_gained |-> NoOne,
   on_focus_lost |-> NoOne, on_service_connect |-> NoOne,
   on_service_disconnect |-> NoOne,
   on_device_change |-> "mutex_device_change", on_images |-> "mutex_images"]

\* impl Listener for ManagedListener: the counter mutex each method locks.
HookMutex ==
  [on_init |-> NoOne, on_exit |-> NoOne,
   on_connect |-> NoOne, on_disconnect |-> NoOne,
   on_frame |-> "mutex_frame", on_focus_gained |-> NoOne,
   on_focus_lost |-> NoOne, on_service_connect |-> NoOne,
   on_service_disconnect |-> NoOne,
   on_device_change |-> "mutex_device_change", on_images |-> "mutex_images"]

\* Mutant of Increment: the handler adds two.
IncrementTwice(n) == n + 2

\* The value a handler stores in its counter: *guard += 1.
Increment(n) == n + 1

\* ------------------------------------------------------------ frame history
\* "The maximum value of `history` is 59."
MaxHistory == 59

\* The values of a u8.
U8 == 0 .. (2^8 - 1)

NoFrame == [result |-> NoOne]

\* Mutant of IntoCInt: the history is clamped to the maximum before the call.
ClampHistory(h) == IF h > MaxHistory THEN MaxHistory ELSE h

\* history.into(): the eight bits of the u8, zero-extended to the signed
\* 32-bit integer of the native signature.
IntoCInt(h) == h % 2^8

\* Leap::Controller::frame(history): the frame of that age if the history
\* holds one, an invalid Frame otherwise.
NativeFrameValid(history, held) ==
  history >= 0 /\ history <= MaxHistory /\ history < held

\* ---------------------------------------------------------------- Timestamp
\* The width of a raw timestamp in this model (an i64 in the code): values are
\* two's-complement integers of this many bits.
TimestampBits == 4

RawTimestamps == (0 - 2^(TimestampBits - 1)) .. (2^(TimestampBits - 1) - 1)

NoCall == [result |-> NoOne]

\* `x as u64`: the same bits read as an unsigned integer.
AsUnsigned(x) == x % 2^TimestampBits

\* u64::checked_sub: Some(difference), or None when it would be negative.
CheckedSub(a, b) ==
  IF a >= b THEN [some |-> TRUE, val |-> a - b] ELSE [some |-> FALSE, val |-> 0]

\* ---------------------------------------------------------------- ImageList
MaxImages == 12
MaxExtraCalls == 3

NoIter == [len |-> NoOne]

\* Mutant of AtEnd: the iterator stops only once it is past the length.
AtEndPastLen(next, len) == next > len

\* if self.next == self.len
AtEnd(next, len) == next = len

\* ------------------------------------------------------ ManagedController
\* wait_until_service_connected .. wait_until_focus_lost: the Condvar, the
\* query of the predicate and whether the predicate negates it.
LevelWaits ==
  [wait_until_service_connected |->
     [var |-> "service_connect", query |-> "service", negate |-> FALSE],
   wait_until_service_disconnected |->
     [var |-> "service_disconnect", query |-> "service", negate |-> TRUE],
   wait_until_device_connected |->
     [var |-> "device_connect", query |-> "device", negate |-> FALSE],
   wait_until_device_disconnected |->
     [var |-> "device_disconnect", query |-> "device", negate |-> TRUE],
   wait_until_focus_gained |->
     [var |-> "focus_gained", query |-> "focus", negate |-> FALSE],
   wait_until_focus_lost |->
     [var |-> "focus_lost", query |-> "focus", negate |-> TRUE]]

\* Mutant of EdgeWaits: wait_until_images locks mutex_frame.
EdgeWaitsImagesOnFrameMutex ==
  [wait_until_device_change |->
     [var |-> "device_change", mutex |-> "mutex_device_change"],
   wait_until_frame |-> [var |-> "frame", mutex |-> "mutex_frame"],
   wait_until_images |-> [var |-> "images", mutex |-> "mutex_frame"]]

\* wait_until_device_change / wait_until_frame / wait_until_images.
EdgeWaits ==
  [wait_until_device_change |->
     [var |-> "device_change", mutex |-> "mutex_device_change"],
   wait_until_frame |-> [var |-> "frame", mutex |-> "mutex_frame"],
   wait_until_images |-> [var |-> "images", mutex |-> "mutex_images"]]

LevelOps == DOMAIN LevelWaits
EdgeOps == DOMAIN EdgeWaits

VARIABLES
  conn,        \* native connection state: is_service_connected, is_connected, has_focus
  counter,     \* contents of mutex_frame / mutex_images / mutex_device_change
  mutexOwner,  \* the thread holding each mutex of Shared, or NoOne
  pc,          \* each waiter's position in wait_until / wait_until_counter
  wop,         \* the wait operation each waiter is in
  old,         \* the local `old` of wait_until_counter
  heldAtCall,  \* history: the awaited value held when the waiter took the lock
  es,          \* the Event Source thread: position, event, target index, hook
  delivered,   \* history: invocations of the counting hooks of ManagedListener
  heap,        \* Box<L> allocations: address -> listener instance
  listeners,   \* Controller.listeners
  native,      \* the native controller's listener list
  used,        \* listener instances already moved into add_listener
  raised,      \* history: callbacks the Event Source made to user listeners
  calls,       \* history: hook invocations observed by user listeners
  aborted,     \* process::abort() was called
  ctrl,        \* "live", "dropping" (inside the native destructor), "dropped"
  dropIdx,     \* the listener the native destructor notifies next
  addret,      \* what the last add_listener call returned, and what native said
  registry,    \* history: the instance and the token of each accepted registration
  boxedZst,    \* the live boxed listeners of zero-sized types, with their types
  frames,      \* the number of frames the native controller keeps in its history
  lastFrame,   \* the Frame the last frame_at call returned, until it is dropped
  tsCall,      \* the last Timestamp::duration_since call and its outcome
  iter         \* the ImageListIterator in use, with a log of what it fetched

vars == <<conn, counter, mutexOwner, pc, wop, old, heldAtCall, es, delivered,
          heap, listeners, native, used, raised, calls, aborted, ctrl,
          dropIdx, addret, registry, boxedZst, frames, lastFrame,
          tsCall, iter>>

waitVars == <<pc, wop, old, heldAtCall>>
ctrlVars == <<heap, listeners, native, used, ctrl, dropIdx, addret, registry,
              boxedZst>>

\* The live listeners of zero-sized types: they own no allocation.
zeroSized == {z.inst : z \in boxedZst}
logVars == <<raised, calls>>
queryVars == <<frames, lastFrame, tsCall, iter>>

EsIdle == [pc |-> "idle", ev |-> NoOne, idx |-> 0, hook |-> NoOne]

\* ControllerRef::is_service_connected / is_connected / has_focus.
Query(q) == conn[q]

\* Mutant of Predicate: the closures of the negated waits lose their `!`.
PredicateUnnegated(op) == Query(LevelWaits[op].query)

\* The closure passed to wait_until by the level-triggered wait `op`.
Predicate(op) ==
  IF LevelWaits[op].negate THEN ~Query(LevelWaits[op].query)
  ELSE Query(LevelWaits[op].query)

\* Mutant of VarOf: wait_until_frame and wait_until_images block on each
\* other's Condvar.
VarOfFrameImagesSwapped(op) ==
  IF op \in LevelOps THEN LevelWaits[op].var
  ELSE IF op = "wait_until_frame" THEN "images"
  ELSE IF op = "wait_until_images" THEN "frame"
  ELSE EdgeWaits[op].var

\* The Condvar and the Mutex a wait operation uses.
VarOf(op) == IF op \in LevelOps THEN LevelWaits[op].var ELSE EdgeWaits[op].var
MutexOf(op) == IF op \in LevelOps THEN "mutex" ELSE EdgeWaits[op].mutex

\* The threads blocked in Condvar::wait on `var`.
WaitSet(var) == {w \in Waiters : pc[w] = "blocked" /\ VarOf(wop[w]) = var}

\* Mutant of NotifyAll: notify_one, a single blocked thread is woken.
NotifyOne(var) ==
  [w \in Waiters |->
     IF WaitSet(var) # {} /\ w = (CHOOSE x \in WaitSet(var) : TRUE)
     THEN "woken" ELSE pc[w]]

\* Condvar::notify_all(var): every thread blocked on var is woken.
NotifyAll(var) ==
  [w \in Waiters |-> IF w \in WaitSet(var) THEN "woken" ELSE pc[w]]

\* Mutant of WaitCondition: the counter test of wait_until_counter is inverted.
WaitConditionInverted(w) ==
  IF wop[w] \in LevelOps THEN ~Predicate(wop[w])
  ELSE counter[MutexOf(wop[w])] # old[w]

\* The condition of wait_while: keep waiting while it is true.
WaitCondition(w) ==
  IF wop[w] \in LevelOps THEN ~Predicate(wop[w])
  ELSE counter[MutexOf(wop[w])] = old[w]

\* ------------------------------------------------------------------ bridge
\* let listener = &mut *(userdata as *mut L), in the wrapper instantiated for
\* the type L: a reference to the value of type L at that address.  For a
\* type with a size it is the listener the heap h holds there.  The boxed
\* values of a zero-sized L all sit at the dangling address of L and occupy no
\* memory: the reference is to any one of them (those in z), and nothing in
\* the call tells which.
ReceiversIn(h, z, target) ==
  IF TypeLayout[target.L].size = 0
  THEN {x.inst : x \in {y \in z : y.type = target.L}}
  ELSE {h[target.userdata]} \ {Free}

Receivers(target) == ReceiversIn(heap, boxedZst, target)

\* The Listener method the native callback for event ev of `target` ends in.
HookFor(target, ev) == WrapCallbacks[target.callbacks[SlotOf[ev]]]

\* The event the native controller delivers to a listener it has just accepted,
\* and the one its destructor delivers to every listener it still holds.
NativeOnAdd == "Init"
NativeOnDestroy == "Exit"

\* Mutant of PushListener: the listener is retained whatever the native call said.
PushAlways(ls, success, r) == Append(ls, r)

\* if success { self.listeners.push(listener) }
PushListener(ls, success, r) == IF success THEN Append(ls, r) ELSE ls

\* What add_listener hands back to its caller (its return type is the unit type).
AddListenerResult(success) == "unit"

\* Box::new(listener): the dangling address of the type for a listener of a
\* zero-sized type, otherwise a free address (the lowest).
Alloc(layout) ==
  IF layout.size = 0 THEN Dangling(layout)
  ELSE CHOOSE a \in Addrs : heap[a] = Free /\ \A b \in Addrs : heap[b] = Free => a <= b

NUsers ==
  Cardinality({i \in DOMAIN native : Receivers(native[i]) \cap UserListeners # {}})

SumCounters ==
  counter["mutex_frame"] + counter["mutex_images"] + counter["mutex_device_change"]

\* The Event Source thread after a callback returned: the next listener, or idle.
Advance ==
  IF es.idx < Len(native)
  THEN [pc |-> "call", ev |-> es.ev, idx |-> es.idx + 1, hook |-> NoOne]
  ELSE EsIdle

\* A method of impl Listener for ManagedListener run from start to end with no
\* other thread in between: the counters and the waiters' positions after it.
CounterAfter(hook, c) ==
  IF HookMutex[hook] = NoOne THEN c
  ELSE [c EXCEPT ![HookMutex[hook]] = Increment(@)]

PcAfter(hook) ==
  IF HookCondvar[hook] = NoOne THEN pc ELSE NotifyAll(HookCondvar[hook])

\* ------------------------------------------------------------------ Init
\* ManagedController::new(): the shared state, a fresh Controller (not yet
\* connected: the connection is made in the background), and
\* add_listener(ManagedListener), which the native controller accepts or not;
\* accepting, it has called on_init of the internal listener.  No thread can
\* be in a wait: the ManagedController is not yet returned.
Init ==
  \E accept \in BOOLEAN :
    LET r == create_rust_listener(ManagedType, HeapBase + 1) IN
    /\ conn = [q \in {"service", "device", "focus"} |-> FALSE]
    /\ counter = IF accept
                 THEN CounterAfter(HookFor(r.sys, NativeOnAdd),
                                   [m \in CounterMutexes |-> 0])
                 ELSE [m \in CounterMutexes |-> 0]
    /\ mutexOwner = [m \in Mutexes |-> NoOne]
    /\ pc = [w \in Waiters |-> "idle"]
    /\ wop = [w \in Waiters |-> NoOne]
    /\ old = [w \in Waiters |-> 0]
    /\ heldAtCall = [w \in Waiters |-> FALSE]
    /\ es = EsIdle
    /\ delivered = counter
    /\ heap = [a \in Addrs |-> IF a = r.rust /\ accept THEN Managed ELSE Free]
    /\ listeners = PushListener(<<>>, accept, r)
    /\ native = IF accept THEN <<r.sys>> ELSE <<>>
    /\ used = {}
    /\ raised = <<>>
    /\ calls = <<>>
    /\ aborted = FALSE
    /\ ctrl = "live"
    /\ dropIdx = 0
    /\ addret = [native |-> accept, ret |-> AddListenerResult(accept)]
    /\ registry = IF accept
                  THEN <<[inst |-> Managed, userdata |-> r.sys.userdata]>>
                  ELSE <<>>
    /\ boxedZst = {}
    /\ frames = 0
    /\ lastFrame = NoFrame
    /\ tsCall = NoCall
    /\ iter = NoIter

\* ------------------------------------------------------------ Event Source
\* The native service raises event e: the connection state changes (a
\* level-triggered event is a transition of its property) and the callbacks
\* of the registered listeners are called in turn.  Nothing of this takes a
\* lock of Shared.  Events are raised until the native destructor makes its
\* first onExit call.
Raise(e) ==
  /\ es.pc = "idle" /\ ~aborted
  /\ ctrl = "live" \/ (ctrl = "dropping" /\ dropIdx = 1)
  /\ e \in EdgeEvents => SumCounters < MaxEdgeEvents
  /\ Len(raised) + NUsers <= MaxLog
  /\ conn' = IF e \in LevelEvents
             THEN [conn EXCEPT ![FlipOf[e].prop] = FlipOf[e].val]
             ELSE conn
  /\ e \in LevelEvents => conn' # conn
  /\ es' = IF native = <<>> THEN EsIdle
           ELSE [pc |-> "call", ev |-> e, idx |-> 1, hook |-> NoOne]
  /\ UNCHANGED <<counter, mutexOwner, waitVars, delivered, ctrlVars, logVars, aborted>>
  /\ UNCHANGED queryVars

\* cb_on_*::<L> for a user listener: the hook runs inside catch_unwind and
\* either returns or panics; a panic aborts the process.
DispatchUser(res) ==
  /\ es.pc = "call" /\ ~aborted
  /\ LET target == native[es.idx] IN
     \E inst \in Receivers(target) \cap UserListeners :
        /\ raised' = Append(raised, [reg |-> es.idx, token |-> target.userdata,
                                     event |-> es.ev])
        /\ calls' = Append(calls, [listener |-> inst, hook |-> HookFor(target, es.ev),
                                   res |-> res])
        /\ aborted' = AbortOn(res)
        /\ es' = IF AbortOn(res) THEN es ELSE Advance
  /\ UNCHANGED <<conn, counter, mutexOwner, waitVars, delivered, ctrlVars>>
  /\ UNCHANGED queryVars

\* cb_on_*::<ManagedListener> for a method that takes no lock: on_connect,
\* on_disconnect, on_focus_*, on_service_* notify their Condvar; on_init and
\* on_exit do nothing.
ManagedSignal ==
  /\ es.pc = "call" /\ ~aborted
  /\ LET target == native[es.idx]
         hook == HookFor(target, es.ev)
     IN /\ Managed \in Receivers(target)
        /\ HookMutex[hook] = NoOne
        /\ pc' = IF HookCondvar[hook] = NoOne THEN pc ELSE NotifyAll(HookCondvar[hook])
  /\ es' = Advance
  /\ UNCHANGED <<conn, counter, mutexOwner, wop, old, heldAtCall, delivered,
                 ctrlVars, logVars, aborted>>
  /\ UNCHANGED queryVars

\* on_frame / on_device_change / on_images, first half of the first statement:
\* self.shared.mutex_X.lock().unwrap().
ManagedLock ==
  /\ es.pc = "call" /\ ~aborted
  /\ LET target == native[es.idx]
         hook == HookFor(target, es.ev)
     IN /\ Managed \in Receivers(target)
        /\ HookMutex[hook] # NoOne
        /\ mutexOwner[HookMutex[hook]] = NoOne
        /\ mutexOwner' = [mutexOwner EXCEPT ![HookMutex[hook]] = EsThread]
        /\ delivered' = [delivered EXCEPT ![HookMutex[hook]] = @ + 1]
        /\ es' = [es EXCEPT !.pc = "locked", !.hook = hook]
  /\ UNCHANGED <<conn, counter, waitVars, ctrlVars, logVars, aborted>>
  /\ UNCHANGED queryVars

\* ... second half: *guard += 1, and the temporary guard is dropped.
ManagedIncrement ==
  /\ es.pc = "locked" /\ ~aborted
  /\ counter' = [counter EXCEPT ![HookMutex[es.hook]] = Increment(@)]
  /\ mutexOwner' = [mutexOwner EXCEPT ![HookMutex[es.hook]] = NoOne]
  /\ es' = [es EXCEPT !.pc = "notify"]
  /\ UNCHANGED <<conn, waitVars, delivered, ctrlVars, logVars, aborted>>
  /\ UNCHANGED queryVars

\* Mutant of ManagedNotify: the handler returns without notifying.
ManagedNotifyMissing ==
  /\ es.pc = "notify" /\ ~aborted
  /\ es' = Advance
  /\ UNCHANGED <<conn, counter, mutexOwner, waitVars, delivered, ctrlVars,
                 logVars, aborted>>
  /\ UNCHANGED queryVars

\* ... second statement: self.shared.X.notify_all().
ManagedNotify ==
  /\ es.pc = "notify" /\ ~aborted
  /\ pc' = NotifyAll(HookCondvar[es.hook])
  /\ es' = Advance
  /\ UNCHANGED <<conn, counter, mutexOwner, wop, old, heldAtCall, delivered,
                 ctrlVars, logVars, aborted>>
  /\ UNCHANGED queryVars

\* ------------------------------------------------------------------ waiters
\* wait_until(var, predicate), first statement: self.shared.mutex.lock().
WaitUntilLock(w, op) ==
  /\ pc[w] = "idle" /\ ctrl = "live" /\ ~aborted
  /\ op \in LevelOps
  /\ mutexOwner[MutexOf(op)] = NoOne
  /\ mutexOwner' = [mutexOwner EXCEPT ![MutexOf(op)] = w]
  /\ pc' = [pc EXCEPT ![w] = "locked"]
  /\ wop' = [wop EXCEPT ![w] = op]
  /\ heldAtCall' = [heldAtCall EXCEPT ![w] = Predicate(op)]
  /\ UNCHANGED <<conn, counter, old, es, delivered, ctrlVars, logVars, aborted>>
  /\ UNCHANGED queryVars

\* wait_until_counter(var, mutex), first statement, with a logger enabled at
\* the Trace level: log::trace!("... mutex = {:?}", var, mutex) formats the
\* Mutex, and Debug for Mutex calls try_lock; the mutex being free, the thread
\* holds the guard while the logger formats the counter.  The logger formats
\* the record once per sink: each formatting pass calls try_lock again, the
\* first from "idle", a further one from "traced" for the same wait.  A pass
\* whose try_lock finds the mutex locked prints "<locked>" and changes nothing.
TraceTryLock(w, op) ==
  /\ \/ pc[w] = "idle" /\ ctrl = "live"
     \/ pc[w] = "traced" /\ wop[w] = op
  /\ ~aborted
  /\ op \in EdgeOps
  /\ mutexOwner[MutexOf(op)] = NoOne
  /\ mutexOwner' = [mutexOwner EXCEPT ![MutexOf(op)] = w]
  /\ pc' = [pc EXCEPT ![w] = "tracing"]
  /\ wop' = [wop EXCEPT ![w] = op]
  /\ UNCHANGED <<conn, counter, old, heldAtCall, es, delivered, ctrlVars, logVars,
                 aborted>>
  /\ UNCHANGED queryVars

\* ... the formatting pass ends and the guard it took is dropped.
TraceUnlock(w) ==
  /\ pc[w] = "tracing" /\ ~aborted
  /\ mutexOwner' = [mutexOwner EXCEPT ![MutexOf(wop[w])] = NoOne]
  /\ pc' = [pc EXCEPT ![w] = "traced"]
  /\ UNCHANGED <<conn, counter, wop, old, heldAtCall, es, delivered, ctrlVars,
                 logVars, aborted>>
  /\ UNCHANGED queryVars

\* wait_until_counter(var, mutex): let guard = mutex.lock(); let old = *guard.
\* The thread comes from the trace statement, whose formatting passes have
\* released the mutex ("traced"), or which did nothing: no logger is enabled at the Trace level,
\* or try_lock found the mutex locked and "<locked>" was printed ("idle").
WaitUntilCounterLock(w, op) ==
  /\ \/ pc[w] = "idle" /\ ctrl = "live"
     \/ pc[w] = "traced" /\ wop[w] = op
  /\ ~aborted
  /\ op \in EdgeOps
  /\ mutexOwner[MutexOf(op)] = NoOne
  /\ mutexOwner' = [mutexOwner EXCEPT ![MutexOf(op)] = w]
  /\ pc' = [pc EXCEPT ![w] = "locked"]
  /\ wop' = [wop EXCEPT ![w] = op]
  /\ old' = [old EXCEPT ![w] = counter[MutexOf(op)]]
  /\ UNCHANGED <<conn, counter, heldAtCall, es, delivered, ctrlVars, logVars, aborted>>
  /\ UNCHANGED queryVars

\* Condvar::wait_while, the loop test (the guard is held): the condition is
\* evaluated; if it is false the guard is returned and dropped.
WaitWhileCheck(w) ==
  /\ pc[w] = "locked" /\ ~aborted
  /\ IF WaitCondition(w)
     THEN /\ pc' = [pc EXCEPT ![w] = "waiting"]
          /\ UNCHANGED mutexOwner
     ELSE /\ pc' = [pc EXCEPT ![w] = "done"]
          /\ mutexOwner' = [mutexOwner EXCEPT ![MutexOf(wop[w])] = NoOne]
  /\ UNCHANGED <<conn, counter, wop, old, heldAtCall, es, delivered, ctrlVars,
                 logVars, aborted>>
  /\ UNCHANGED queryVars

\* Mutant of CondvarWait: the thread blocks with the mutex still locked.
CondvarWaitHolding(w) ==
  /\ pc[w] = "waiting" /\ ~aborted
  /\ pc' = [pc EXCEPT ![w] = "blocked"]
  /\ UNCHANGED <<conn, counter, mutexOwner, wop, old, heldAtCall, es, delivered,
                 ctrlVars, logVars, aborted>>
  /\ UNCHANGED queryVars

\* Condvar::wait_while, the loop body: self.wait(guard) releases the mutex and
\* blocks the thread on the Condvar, atomically.
CondvarWait(w) ==
  /\ pc[w] = "waiting" /\ ~aborted
  /\ pc' = [pc EXCEPT ![w] = "blocked"]
  /\ mutexOwner' = [mutexOwner EXCEPT ![MutexOf(wop[w])] = NoOne]
  /\ UNCHANGED <<conn, counter, wop, old, heldAtCall, es, delivered, ctrlVars,
                 logVars, aborted>>
  /\ UNCHANGED queryVars

\* Condvar::wait may return without a notification.
SpuriousWake(w) ==
  /\ pc[w] = "blocked" /\ ~aborted
  /\ pc' = [pc EXCEPT ![w] = "woken"]
  /\ UNCHANGED <<conn, counter, mutexOwner, wop, old, heldAtCall, es, delivered,
                 ctrlVars, logVars, aborted>>
  /\ UNCHANGED queryVars

\* Condvar::wait returning: the mutex is locked again before the loop test.
Reacquire(w) ==
  /\ pc[w] = "woken" /\ ~aborted
  /\ mutexOwner[MutexOf(wop[w])] = NoOne
  /\ mutexOwner' = [mutexOwner EXCEPT ![MutexOf(wop[w])] = w]
  /\ pc' = [pc EXCEPT ![w] = "locked"]
  /\ UNCHANGED <<conn, counter, wop, old, heldAtCall, es, delivered, ctrlVars,
                 logVars, aborted>>
  /\ UNCHANGED queryVars

\* The wait operation returns to its caller.
Return(w) ==
  /\ pc[w] = "done" /\ ~aborted
  /\ pc' = [pc EXCEPT ![w] = "idle"]
  /\ wop' = [wop EXCEPT ![w] = NoOne]
  /\ old' = [old EXCEPT ![w] = 0]
  /\ heldAtCall' = [heldAtCall EXCEPT ![w] = FALSE]
  /\ UNCHANGED <<conn, counter, mutexOwner, es, delivered, ctrlVars, logVars, aborted>>
  /\ UNCHANGED queryVars

\* ---------------------------------------------------------------- Controller
\* Controller::add_listener(listener): create_rust_listener, the native
\* addListener call (which, accepting, calls onInit), and the push on success.
\* A rejected listener is dropped at the end of the call.  L is the type of
\* the listener inst.
AddListener(inst, L, accept, res) ==
  /\ ctrl = "live" /\ ~aborted
  /\ inst \in UserListeners \ used
  /\ L \in UserTypes
  /\ Len(raised) < MaxLog
  /\ accept \/ res = "ok"
  /\ LET layout == TypeLayout[L]
         a == Alloc(layout)
         r == create_rust_listener(L, a)
         heap1 == IF layout.size = 0 THEN heap ELSE [heap EXCEPT ![a] = inst]
         zst1 == IF layout.size = 0
                 THEN boxedZst \cup {[inst |-> inst, type |-> L]}
                 ELSE boxedZst
         died == accept /\ AbortOn(res)
     IN \E recv \in ReceiversIn(heap1, zst1, r.sys) :
        /\ used' = used \cup {inst}
        /\ native' = IF accept THEN Append(native, r.sys) ELSE native
        /\ raised' = IF accept
                     THEN Append(raised, [reg |-> Len(native) + 1,
                                          token |-> r.sys.userdata,
                                          event |-> NativeOnAdd])
                     ELSE raised
        /\ calls' = IF accept
                    THEN Append(calls, [listener |-> recv,
                                        hook |-> HookFor(r.sys, NativeOnAdd),
                                        res |-> res])
                    ELSE calls
        /\ aborted' = died
        /\ listeners' = IF died THEN listeners ELSE PushListener(listeners, accept, r)
        /\ heap' = IF accept THEN heap1 ELSE heap
        /\ addret' = IF died THEN addret
                     ELSE [native |-> accept, ret |-> AddListenerResult(accept)]
        /\ boxedZst' = IF accept THEN zst1 ELSE boxedZst
        /\ registry' = IF accept
                       THEN Append(registry, [inst |-> inst,
                                              userdata |-> r.sys.userdata])
                       ELSE registry
  /\ UNCHANGED <<conn, counter, mutexOwner, waitVars, es, delivered, ctrl, dropIdx>>
  /\ UNCHANGED queryVars

\* Mutant of DropBegin: the listeners are freed before the native destructor
\* is entered.
DropBeginFreesFirst ==
  /\ ctrl = "live" /\ ~aborted
  /\ \A w \in Waiters : pc[w] = "idle"
  /\ ctrl' = "dropping"
  /\ dropIdx' = 1
  /\ listeners' = <<>>
  /\ heap' = [a \in Addrs |-> Free]
  /\ boxedZst' = {}
  /\ UNCHANGED <<conn, counter, mutexOwner, waitVars, es, delivered,
                 native, used, addret, registry, logVars, aborted>>
  /\ UNCHANGED queryVars

\* Drop for Controller, entering Leap_Controller_Controller_destructor.  The
\* Controller is dropped by its owner, so no wait_until_* call (which borrows
\* it) is in progress.  Nothing synchronises the drop with the Event Source
\* thread, which may be in the middle of a dispatch.
DropBegin ==
  /\ ctrl = "live" /\ ~aborted
  /\ \A w \in Waiters : pc[w] = "idle"
  /\ ctrl' = "dropping"
  /\ dropIdx' = 1
  /\ UNCHANGED <<conn, counter, mutexOwner, waitVars, es, delivered, heap,
                 listeners, native, used, addret, registry, boxedZst, logVars,
                 aborted>>
  /\ UNCHANGED queryVars

\* Inside the destructor: the next listener's onExit callback.  The Event
\* Source serialises its calls to the listeners: the onExit calls are made
\* once the dispatch in flight has gone through the listeners.  For the
\* internal listener the callback runs ManagedListener's on_exit.
DropDeliver(res) ==
  /\ ctrl = "dropping" /\ ~aborted
  /\ es.pc = "idle"
  /\ dropIdx <= Len(native)
  /\ LET target == native[dropIdx]
         hook == HookFor(target, NativeOnDestroy)
     IN IF Receivers(target) \cap UserListeners # {}
        THEN \E inst \in Receivers(target) \cap UserListeners :
             /\ raised' = Append(raised, [reg |-> dropIdx, token |-> target.userdata,
                                          event |-> NativeOnDestroy])
             /\ calls' = Append(calls, [listener |-> inst, hook |-> hook,
                                        res |-> res])
             /\ aborted' = AbortOn(res)
             /\ UNCHANGED <<counter, delivered, pc>>
        ELSE /\ res = "ok"
             /\ counter' = CounterAfter(hook, counter)
             /\ delivered' = CounterAfter(hook, delivered)
             /\ pc' = PcAfter(hook)
             /\ UNCHANGED <<logVars, aborted>>
  /\ dropIdx' = dropIdx + 1
  /\ UNCHANGED <<conn, mutexOwner, wop, old, heldAtCall, es, heap,
                 listeners, native, used, ctrl, addret, registry, boxedZst>>
  /\ UNCHANGED queryVars

\* The destructor returns and drop glue frees sys, then the listeners.
DropFinish ==
  /\ ctrl = "dropping" /\ ~aborted
  /\ dropIdx > Len(native)
  /\ ctrl' = "dropped"
  /\ native' = <<>>
  /\ listeners' = <<>>
  /\ heap' = [a \in Addrs |-> Free]
  /\ boxedZst' = {}
  /\ UNCHANGED <<conn, counter, mutexOwner, waitVars, es, delivered, used,
                 dropIdx, addret, registry, logVars, aborted>>
  /\ UNCHANGED queryVars

\* ---------------------------------------------------------------- queries
\* ControllerRef::frame_at(history): Leap_Controller_frame fills the boxed
\* Frame, which is returned as it is.
FrameAt(h) ==
  /\ ctrl = "live" /\ ~aborted
  /\ lastFrame = NoFrame
  /\ lastFrame' = [result |-> "Frame", requested |-> h, passed |-> IntoCInt(h),
                   held |-> frames,
                   valid |-> NativeFrameValid(IntoCInt(h), frames)]
  /\ UNCHANGED <<conn, counter, mutexOwner, waitVars, es, delivered, ctrlVars,
                 logVars, aborted, frames, tsCall, iter>>

\* The caller drops the Frame.
FrameDrop ==
  /\ lastFrame # NoFrame /\ ~aborted
  /\ lastFrame' = NoFrame
  /\ UNCHANGED <<conn, counter, mutexOwner, waitVars, es, delivered, ctrlVars,
                 logVars, aborted, frames, tsCall, iter>>

\* The native controller stores a new frame; the history keeps the newest
\* MaxHistory + 1 of them.  A Frame already returned is a value of its own
\* that a later store does not change, so stores are taken between calls.
NativeStoreFrame ==
  /\ ctrl = "live" /\ ~aborted
  /\ lastFrame = NoFrame
  /\ frames <= MaxHistory
  /\ frames' = frames + 1
  /\ UNCHANGED <<conn, counter, mutexOwner, waitVars, es, delivered, ctrlVars,
                 logVars, aborted, lastFrame, tsCall, iter>>

\* Timestamp::duration_since(earlier): both raw values are cast to u64 and
\* subtracted with checked_sub; None panics through expect, a difference becomes
\* Duration::from_micros.
DurationSince(self, earlier) ==
  /\ ~aborted
  /\ LET diff == CheckedSub(AsUnsigned(self), AsUnsigned(earlier)) IN
     tsCall' = [result |-> IF diff.some THEN "ok" ELSE "panic",
                self |-> self, earlier |-> earlier, micros |-> diff.val]
  /\ UNCHANGED <<conn, counter, mutexOwner, waitVars, es, delivered, ctrlVars,
                 logVars, aborted, frames, lastFrame, iter>>

\* ImageList::iter() on a list whose len() is n.
ImageListIter(n) ==
  /\ ~aborted
  /\ iter = NoIter
  /\ iter' = [len |-> n, next |-> 0, fetched |-> <<>>, calls |-> 0, last |-> NoOne]
  /\ UNCHANGED <<conn, counter, mutexOwner, waitVars, es, delivered, ctrlVars,
                 logVars, aborted, frames, lastFrame, tsCall>>

\* ImageListIterator::next(): None at the end; otherwise Leap_RustGetImage is
\* called with self.next (`as i32`, the same number for every index a list can
\* have), self.next is incremented and the image is returned.
IteratorNext ==
  /\ ~aborted
  /\ iter # NoIter
  /\ iter.calls < iter.len + MaxExtraCalls
  /\ iter' = IF AtEnd(iter.next, iter.len)
             THEN [iter EXCEPT !.calls = @ + 1, !.last = "None"]
             ELSE [iter EXCEPT !.calls = @ + 1, !.last = "Some",
                               !.fetched = Append(@, iter.next),
                               !.next = @ + 1]
  /\ UNCHANGED <<conn, counter, mutexOwner, waitVars, es, delivered, ctrlVars,
                 logVars, aborted, frames, lastFrame, tsCall>>

\* The iterator is dropped.
IteratorDrop ==
  /\ ~aborted
  /\ iter # NoIter
  /\ iter' = NoIter
  /\ UNCHANGED <<conn, counter, mutexOwner, waitVars, es, delivered, ctrlVars,
                 logVars, aborted, frames, lastFrame, tsCall>>

\* ------------------------------------------------------------ specifications
Outcomes == {"ok", "panic"}

\* The Controller, its listeners and the dispatch bridge.
\* The edge-triggered events the Event Source raises while the application
\* registers listeners of every type and drops the Controller.
MaxStreamEdgeEvents == 1

\* The user's listeners are interchangeable values: they are handed to
\* add_listener in one order.
ListenerOrder == <<"L1", "L2">>

NextListener == ListenerOrder[Cardinality(used) + 1]

\* The types the listeners have.  The pairs are: two listeners with a size;
\* one with a size and a zero-sized one, in either order; two zero-sized ones
\* of different types aligned alike (Z1 and Y1), and two aligned differently.
ListenerTypes ==
  [L1 |-> {"MyListener", "Z1"}, L2 |-> {"MyListener", "Y1", "Z8"}]

\* A live listener is a value of the zero-sized type L.
BoxedAlready(L) == \E z \in boxedZst : z.type = L

\* The listeners registered together are distinguishable objects: no two are
\* values of one zero-sized type (AliasSpec has those).
Next ==
  \/ \E accept \in BOOLEAN, res \in Outcomes, L \in UserTypes :
       /\ used # UserListeners
       /\ L \in ListenerTypes[NextListener] /\ ~BoxedAlready(L)
       /\ AddListener(NextListener, L, accept, res)
  \/ \E e \in StreamEvents :
       /\ e \in EdgeEvents => SumCounters < MaxStreamEdgeEvents
       /\ Raise(e)
  \/ \E res \in Outcomes : DispatchUser(res)
  \/ ManagedSignal
  \/ ManagedLock
  \/ ManagedIncrement
  \/ ManagedNotify
  \/ DropBegin
  \/ \E res \in Outcomes : DropDeliver(res)
  \/ DropFinish

Spec == Init /\ [][Next]_vars

\* Listeners of every type, two values of one zero-sized type included,
\* registered while the Event Source raises level-triggered events.
AliasNext ==
  \/ \E accept \in BOOLEAN, res \in Outcomes, L \in UserTypes :
       /\ used # UserListeners
       /\ AddListener(NextListener, L, accept, res)
  \/ \E e \in LevelEvents : Raise(e)
  \/ \E res \in Outcomes : DispatchUser(res)
  \/ ManagedSignal

AliasSpec == Init /\ [][AliasNext]_vars

\* The edge-triggered waits against the Event Source.
EdgeNext ==
  \/ \E w \in Waiters, op \in EdgeOps : TraceTryLock(w, op)
  \/ \E w \in Waiters : TraceUnlock(w)
  \/ \E w \in Waiters, op \in EdgeOps : WaitUntilCounterLock(w, op)
  \/ \E w \in Waiters : WaitWhileCheck(w)
  \/ \E w \in Waiters : CondvarWait(w)
  \/ \E w \in Waiters : SpuriousWake(w)
  \/ \E w \in Waiters : Reacquire(w)
  \/ \E w \in Waiters : Return(w)
  \/ \E e \in EdgeEvents : Raise(e)
  \/ ManagedLock
  \/ ManagedIncrement
  \/ ManagedNotify

EdgeSpec == Init /\ [][EdgeNext]_vars

\* The level-triggered waits against the Event Source.
LevelNext ==
  \/ \E w \in Waiters, op \in LevelOps : WaitUntilLock(w, op)
  \/ \E w \in Waiters : WaitWhileCheck(w)
  \/ \E w \in Waiters : CondvarWait(w)
  \/ \E w \in Waiters : SpuriousWake(w)
  \/ \E w \in Waiters : Reacquire(w)
  \/ \E w \in Waiters : Return(w)
  \/ \E e \in LevelEvents : Raise(e)
  \/ ManagedSignal

LevelSpec == Init /\ [][LevelNext]_vars

\* One thread calling any of the nine waits while the Event Source delivers
\* events of every kind to the internal listener, up to the teardown.
Observer == "w1"

HandlerNext ==
  \/ \E op \in LevelOps : WaitUntilLock(Observer, op)
  \/ \E op \in EdgeOps : TraceTryLock(Observer, op)
  \/ TraceUnlock(Observer)
  \/ \E op \in EdgeOps : WaitUntilCounterLock(Observer, op)
  \/ WaitWhileCheck(Observer)
  \/ CondvarWait(Observer)
  \/ SpuriousWake(Observer)
  \/ Reacquire(Observer)
  \/ Return(Observer)
  \/ \E e \in StreamEvents : Raise(e)
  \/ ManagedSignal
  \/ ManagedLock
  \/ ManagedIncrement
  \/ ManagedNotify
  \/ DropBegin
  \/ \E res \in Outcomes : DropDeliver(res)
  \/ DropFinish

HandlerSpec == Init /\ [][HandlerNext]_vars

\* Threads in waits of both families at once, against the handlers that lock.
LockNext ==
  \/ \E w \in Waiters, op \in LevelOps : WaitUntilLock(w, op)
  \/ EdgeNext

LockSpec == Init /\ [][LockNext]_vars

\* Requests for frames of every age against a history that fills up.
FrameNext ==
  \/ \E h \in U8 : FrameAt(h)
  \/ FrameDrop
  \/ NativeStoreFrame

FrameSpec == Init /\ [][FrameNext]_vars

\* duration_since on every pair of raw timestamps.
TimestampNext == \E self \in RawTimestamps, earlier \in RawTimestamps : DurationSince(self, earlier)

TimestampSpec == Init /\ [][TimestampNext]_vars

\* Iterators over image lists of every length, called past their end.
ImageNext ==
  \/ \E n \in 0 .. MaxImages : ImageListIter(n)
  \/ IteratorNext
  \/ IteratorDrop

ImageSpec == Init /\ [][ImageNext]_vars

\* Scheduling: a thread that can take a step takes it, the logger returns,
\* and a thread trying to lock a mutex that stays free locks it.  std::sync::Mutex
\* is not fair: a thread trying to lock a mutex that other threads keep taking
\* may never get it.  Raising events, calling the waits and spurious wakeups
\* are not forced.
FairEdgeSpec ==
  /\ EdgeSpec
  /\ \A w \in Waiters :
       /\ WF_vars(TraceUnlock(w))
       /\ WF_vars(WaitWhileCheck(w))
       /\ WF_vars(CondvarWait(w))
       /\ WF_vars(Reacquire(w))
  /\ WF_vars(ManagedLock)
  /\ WF_vars(ManagedIncrement)
  /\ WF_vars(ManagedNotify)

\* The hypothesis of a fair mutex: a thread that finds the mutex it needs free
\* again and again gets it.
MutexGranted ==
  /\ \A w \in Waiters : SF_vars(Reacquire(w))
  /\ SF_vars(ManagedLock)

\* ------------------------------------------------------------------ claims
InEdgeWait(w) == wop[w] \in EdgeOps /\ pc[w] \in {"locked", "waiting", "blocked", "woken"}

\* C1 as stated: a waiter of an edge-triggered class that captured `old`
\* before an increment is signalled by the time the handler of that delivery
\* has completed, and it then returns, under every interleaving of the waiters
\* and the Event Source thread.
C1_ReleasedAndReturns ==
  /\ [](es.pc \in {"idle", "call"} =>
          \A w \in Waiters :
            (wop[w] \in EdgeOps /\ pc[w] = "blocked") =>
              counter[MutexOf(wop[w])] = old[w])
  /\ \A w \in Waiters :
       (InEdgeWait(w) /\ counter[MutexOf(wop[w])] # old[w]) ~> (pc[w] = "done")

\* C1: a waiter of an edge-triggered class that captured `old` before an
\* increment is signalled by the time the handler of that delivery has
\* completed (no waiter is left blocked on the Condvar with counter # old once
\* the Event Source is outside the handler); and if the mutex is granted to
\* every thread that finds it free again and again, a waiter whose counter
\* differs from its `old` reaches the return.
C1_WaiterReleased ==
  /\ [](es.pc \in {"idle", "call"} =>
          \A w \in Waiters :
            (wop[w] \in EdgeOps /\ pc[w] = "blocked") =>
              counter[MutexOf(wop[w])] = old[w])
  /\ MutexGranted =>
       \A w \in Waiters :
         (InEdgeWait(w) /\ counter[MutexOf(wop[w])] # old[w]) ~> (pc[w] = "done")

\* A waiter that captured old = 1 returns from the wait after delivery #2.
C1_Witness ==
  \E w \in Waiters :
    /\ pc[w] = "done" /\ wop[w] = "wait_until_frame"
    /\ old[w] = 1 /\ counter["mutex_frame"] = 2

\* C2: no wakeup of a level-triggered wait is lost: with the internal listener
\* registered and the Event Source done with every handler, no thread is
\* blocked on the Condvar of a wait whose awaited value holds (such a thread
\* stays blocked for as long as the value stays).
C2_NoLostWakeup ==
  \A w \in Waiters :
    ~ /\ wop[w] \in LevelOps /\ pc[w] = "blocked"
      /\ Predicate(wop[w])
      /\ es.pc = "idle" /\ native # <<>>

\* C3: a level-triggered wait called while the awaited value already holds
\* never blocks on the Condvar during that call.
C3_HeldNeverBlocks ==
  \A w \in Waiters : (wop[w] \in LevelOps /\ heldAtCall[w]) => pc[w] # "blocked"

\* C4: the Frame / Images / DeviceChange counters never decrease and are never
\* reset; a counter changes only by +1, in the handler of one delivery and
\* while the Event Source thread holds that counter's mutex; and outside the
\* handlers each counter equals the number of deliveries of its event, whatever
\* the waiters are doing.
C4_CounterExact ==
  /\ [](es.pc \in {"idle", "call"} => counter = delivered)
  /\ [][\A m \in CounterMutexes :
          counter'[m] # counter[m] =>
            /\ counter'[m] = counter[m] + 1
            /\ mutexOwner[m] = EsThread
            /\ counter'[m] = delivered[m]]_vars

\* Two Frame events were counted while a waiter was blocked in wait_until_frame.
C4_Witness ==
  /\ counter["mutex_frame"] = 2 /\ es.pc = "idle"
  /\ \E w \in Waiters : pc[w] = "blocked" /\ wop[w] = "wait_until_frame"

\* ---- the dispatch bridge and the Controller
Registered(L) == \E j \in DOMAIN registry : registry[j].inst = L

\* The registration of the listener registered as L: its place among the
\* registrations the native controller holds.
RegistrationOf(L) == CHOOSE j \in DOMAIN registry : registry[j].inst = L

\* A listener instance that has not been dropped: it is in a live allocation,
\* or it is a live boxed value of a zero-sized type.
Live(L) == L \in zeroSized \/ \E a \in Addrs : heap[a] = L

\* The registration points at a listener instance that has not been dropped.
LiveTarget(target) ==
  IF TypeLayout[target.L].size = 0
  THEN \E z \in boxedZst : z.type = target.L
  ELSE heap[target.userdata] # Free

\* The hooks listener instance L observed, in order.
HooksOf(L) ==
  LET Mine(c) == c.listener = L
      mine == SelectSeq(calls, Mine)
  IN [i \in 1 .. Len(mine) |-> mine[i].hook]

\* The events the Event Source raised for the listener registered as L.
EventsFor(L) ==
  LET reg == RegistrationOf(L)
      Mine(r) == r.reg = reg
      mine == SelectSeq(raised, Mine)
  IN [i \in 1 .. Len(mine) |-> mine[i].event]

ExpectedHook ==
  [Init |-> "on_init", Connect |-> "on_connect", Disconnect |-> "on_disconnect",
   Exit |-> "on_exit", Frame |-> "on_frame", FocusGained |-> "on_focus_gained",
   FocusLost |-> "on_focus_lost", ServiceConnect |-> "on_service_connect",
   ServiceDisconnect |-> "on_service_disconnect",
   DeviceChange |-> "on_device_change", Images |-> "on_images"]

ExitCount(L) == Cardinality({i \in DOMAIN HooksOf(L) : HooksOf(L)[i] = "on_exit"})

\* C5: the hooks a registered listener observes are, one for one and in the
\* same order, the hooks of the kinds of the events raised for it.
C5_HooksFollowEvents ==
  \A L \in UserListeners :
    Registered(L) =>
      LET events == EventsFor(L) IN
      HooksOf(L) = [i \in DOMAIN events |-> ExpectedHook[events[i]]]

\* A listener observed on_init, on_connect, on_frame for Init, Connect, Frame.
C5_Witness ==
  \E L \in UserListeners :
    /\ Registered(L)
    /\ EventsFor(L) = <<"Init", "Connect", "Frame">>
    /\ HooksOf(L) = <<"on_init", "on_connect", "on_frame">>

\* C6: the process is aborted exactly when a hook has panicked; the panicking
\* invocation is the last hook invocation there is, and once aborted no hook
\* of any listener runs (no call is observed, no counter moves).
C6_PanicAborts ==
  /\ [](aborted <=> \E i \in DOMAIN calls : calls[i].res = "panic")
  /\ [](\A i \in DOMAIN calls : calls[i].res = "panic" => i = Len(calls))
  /\ [][aborted => (aborted' /\ calls' = calls /\ counter' = counter
                    /\ delivered' = delivered)]_vars

\* on_frame panicked after two hooks had returned normally.
C6_Witness ==
  /\ aborted /\ Len(calls) = 3
  /\ calls[3].hook = "on_frame" /\ calls[3].res = "panic"
  /\ calls[1].res = "ok" /\ calls[2].res = "ok"

\* C7: every hook invocation is on the instance the token passed by the Event
\* Source identifies and on no other: whatever is registered under that token
\* is the instance the hook ran on.
C7_TokenResolves ==
  \A i \in DOMAIN calls :
    \A j \in DOMAIN registry :
      registry[j].userdata = raised[i].token =>
        registry[j].inst = calls[i].listener

\* C8: a registered listener's first hook is on_init and on_init is never
\* invoked again; on_exit is invoked at most once and nothing follows it; once
\* the Controller is dropped every registered listener has had its on_exit.
C8_InitFirstExitLast ==
  \A L \in UserListeners :
    LET h == HooksOf(L) IN
    /\ Registered(L) => (h # <<>> /\ h[1] = "on_init")
    /\ \A i \in DOMAIN h : h[i] = "on_init" => i = 1
    /\ \A i \in DOMAIN h : h[i] = "on_exit" => i = Len(h)
    /\ (ctrl = "dropped" /\ Registered(L)) => h[Len(h)] = "on_exit"

\* A listener was registered, saw an event and was notified of the teardown.
C8_Witness ==
  /\ ctrl = "dropped"
  /\ HooksOf("L1") = <<"on_init", "on_connect", "on_exit">>

\* C9: when the Controller has been dropped every registered listener has had
\* exactly one on_exit; from the moment drop begins the only hook invocations
\* are those on_exit calls, made inside the native destructor, before the
\* session and the listeners are freed; afterwards there is none.
C9_TeardownNotifiesAll ==
  /\ [](ctrl = "dropped" =>
          \A L \in UserListeners : Registered(L) => ExitCount(L) = 1)
  /\ [][ctrl # "live" =>
          /\ counter' = counter
          /\ calls' # calls =>
               /\ ctrl = "dropping"
               /\ calls' = Append(calls, calls'[Len(calls')])
               /\ calls'[Len(calls')].hook = "on_exit"]_vars

\* C10: when the native registration call rejects the listener, the caller of
\* add_listener receives a failure value.
C10_RejectionReported ==
  (used # {} /\ ~addret.native) => addret.ret = "failure"


\* C11: an add_listener call the native side rejected leaves the listeners
\* collection, the hook log and the live listeners exactly as they were, and a
\* rejected instance never has a hook invoked and is not kept alive; an
\* accepted call that returns extends the collection by exactly the handle of
\* that instance, after the earlier registrations, which stay as they were.
C11_RejectedNotRetained ==
  /\ [](\A L \in used :
          ~Registered(L) =>
            /\ HooksOf(L) = <<>>
            /\ ~Live(L)
            /\ \A i \in DOMAIN listeners : L \notin Receivers(listeners[i].sys))
  /\ [][used' # used =>
          LET L == CHOOSE x \in used' : x \notin used IN
          /\ native' = native =>
               /\ listeners' = listeners
               /\ calls' = calls /\ raised' = raised
               /\ heap' = heap /\ zeroSized' = zeroSized
          /\ (native' # native /\ ~aborted') =>
               /\ Len(listeners') = Len(listeners) + 1
               /\ SubSeq(listeners', 1, Len(listeners)) = listeners
               /\ ReceiversIn(heap', boxedZst', listeners'[Len(listeners')].sys) = {L}
               /\ L \in zeroSized' \/ \E a \in Addrs : heap'[a] = L
               /\ zeroSized \subseteq zeroSized'
               /\ \A a \in Addrs : heap[a] # Free => heap'[a] = heap[a]]_vars

\* L1 was rejected and then L2 was accepted: the collection holds the internal
\* listener and L2 only, and L1 has observed nothing.
C11_Witness ==
  /\ used = {"L1", "L2"} /\ ~Registered("L1") /\ Registered("L2")
  /\ Len(listeners) = 2 /\ Receivers(listeners[2].sys) = {"L2"}
  /\ HooksOf("L1") = <<>> /\ HooksOf("L2") = <<"on_init">>


\* C12: an edge-triggered wait captures the counter of its own event at the
\* call, when it locks the counter's mutex (the trace statement before it,
\* however many times its record is formatted, captures nothing), so
\* deliveries before the capture are not counted; it reaches its return
\* only on a loop test that finds the counter different from the captured
\* value, that is after at least one delivery of its event since the capture;
\* a thread that is woken and finds the counter unchanged goes back to
\* waiting, and while no such delivery has been counted it has not returned.
C12_ReturnsOnlyAfterEvent ==
  /\ [](\A w \in Waiters :
          (wop[w] \in EdgeOps /\ pc[w] = "done") =>
            /\ counter[MutexOf(wop[w])] > old[w]
            /\ delivered[MutexOf(wop[w])] > old[w])
  /\ [](\A w \in Waiters :
          (InEdgeWait(w) /\ counter[MutexOf(wop[w])] = old[w]) => pc[w] # "done")
  /\ [][\A w \in Waiters :
          /\ (pc[w] \in {"idle", "traced"} /\ pc'[w] = "locked"
                /\ wop'[w] \in EdgeOps) =>
               /\ old'[w] = counter[MutexOf(wop'[w])]
               /\ mutexOwner'[MutexOf(wop'[w])] = w
               /\ pc[w] = "traced" => wop'[w] = wop[w]
          /\ (pc[w] \in {"idle", "tracing", "traced"}
                /\ pc'[w] \in {"tracing", "traced"}) =>
               /\ old'[w] = old[w]
               /\ pc[w] # "idle" => wop'[w] = wop[w]
          /\ (wop[w] \in EdgeOps /\ pc[w] # "done" /\ pc'[w] = "done") =>
               /\ pc[w] = "locked"
               /\ counter[MutexOf(wop[w])] # old[w]
          /\ (wop[w] \in EdgeOps /\ pc[w] = "locked" /\ pc'[w] # "locked"
                /\ counter[MutexOf(wop[w])] = old[w]) =>
               pc'[w] = "waiting"
          /\ (wop[w] \in EdgeOps /\ pc[w] \notin {"idle", "tracing", "traced"}) =>
               old'[w] = old[w] \/ pc'[w] = "idle"]_vars

\* One Frame event had been counted before w1 called wait_until_frame; w1
\* returned after the second.  w2, which called after the second, was woken
\* with the counter still at its captured value.
C12_Witness ==
  /\ pc["w1"] = "done" /\ wop["w1"] = "wait_until_frame"
  /\ old["w1"] = 1 /\ counter["mutex_frame"] = 2
  /\ pc["w2"] = "woken" /\ wop["w2"] = "wait_until_frame" /\ old["w2"] = 2


\* The property each level-triggered wait watches and the value it waits for.
Awaited ==
  [wait_until_service_connected |-> [prop |-> "service", target |-> TRUE],
   wait_until_service_disconnected |-> [prop |-> "service", target |-> FALSE],
   wait_until_device_connected |-> [prop |-> "device", target |-> TRUE],
   wait_until_device_disconnected |-> [prop |-> "device", target |-> FALSE],
   wait_until_focus_gained |-> [prop |-> "focus", target |-> TRUE],
   wait_until_focus_lost |-> [prop |-> "focus", target |-> FALSE]]

\* C13: a level-triggered wait reaches its return only from a loop test made
\* by the waiting thread while it holds the shared mutex and at which the
\* watched property has the awaited value; a loop test at which the property
\* has the other value sends the thread to the Condvar, still holding the
\* mutex, never to the return.
C13_ReturnsOnCheckedValue ==
  [][\A w \in Waiters :
       /\ (wop[w] \in LevelOps /\ pc[w] # "done" /\ pc'[w] = "done") =>
            /\ pc[w] = "locked"
            /\ mutexOwner["mutex"] = w
            /\ conn[Awaited[wop[w]].prop] = Awaited[wop[w]].target
       /\ (wop[w] \in LevelOps /\ pc[w] = "locked" /\ pc'[w] # "locked"
             /\ conn[Awaited[wop[w]].prop] # Awaited[wop[w]].target) =>
            /\ pc'[w] = "waiting"
            /\ mutexOwner'["mutex"] = w]_vars

\* w1 called wait_until_device_connected before the device was connected and
\* has returned; w2 then tested wait_until_device_disconnected and must wait.
C13_Witness ==
  /\ pc["w1"] = "done" /\ wop["w1"] = "wait_until_device_connected"
  /\ ~heldAtCall["w1"]
  /\ pc["w2"] = "waiting" /\ wop["w2"] = "wait_until_device_disconnected"


\* A waiter of a level-triggered wait that has evaluated its predicate under
\* the shared mutex and has not yet blocked on the Condvar.
InCheckToBlockGap(w) == wop[w] \in LevelOps /\ pc[w] = "waiting"

\* C15: the handler of a level-triggered event issues its notification while
\* the Event Source thread holds the shared mutex, so never while a waiter
\* holds it; and with the internal listener registered no notification is
\* issued and no watched value is flipped while a waiter is between its
\* predicate check and its blocking.
C15_SignalUnderSharedLock ==
  [][/\ (es.pc = "call" /\ es' # es /\ es.ev \in LevelEvents) =>
          /\ mutexOwner["mutex"] \notin Waiters
          /\ \A w \in Waiters : ~InCheckToBlockGap(w)
     /\ (conn' # conn /\ native # <<>>) =>
          \A w \in Waiters : ~InCheckToBlockGap(w)]_vars


\* The event class each edge-triggered wait is about.
EventOfWait ==
  [wait_until_frame |-> "Frame", wait_until_images |-> "Images",
   wait_until_device_change |-> "DeviceChange"]

BlockedOn(e) ==
  {w \in Waiters : wop[w] \in EdgeOps /\ pc[w] = "blocked" /\ EventOfWait[wop[w]] = e}

\* C16 as stated: the signal of one delivery of an edge-triggered event wakes
\* every thread blocked in the wait of that event, and every one of them
\* returns after that single delivery, with no further event needed.
C16_AllReturn ==
  /\ [][(es.pc = "notify" /\ es'.pc # "notify") =>
          \A w \in BlockedOn(es.ev) : pc'[w] = "woken"]_vars
  /\ [](es.pc # "notify" =>
          \A e \in EdgeEvents : \A w \in BlockedOn(e) :
            counter[MutexOf(wop[w])] = old[w])
  /\ \A w \in Waiters :
       (wop[w] \in EdgeOps /\ pc[w] = "woken" /\ counter[MutexOf(wop[w])] # old[w])
         ~> (pc[w] = "done")

\* C16: the signal of one delivery of an edge-triggered event wakes every
\* thread blocked in the wait of that event, all in the same step; after the
\* handler no thread of that wait is left blocked with a counter different
\* from its captured value; and if the mutex is granted to every thread that
\* finds it free again and again, each one returns, with no further event
\* forced to happen.
C16_OneDeliveryReleasesAll ==
  /\ [][(es.pc = "notify" /\ es'.pc # "notify") =>
          \A w \in BlockedOn(es.ev) : pc'[w] = "woken"]_vars
  /\ [](es.pc # "notify" =>
          \A e \in EdgeEvents : \A w \in BlockedOn(e) :
            counter[MutexOf(wop[w])] = old[w])
  /\ MutexGranted =>
       \A w \in Waiters :
         (wop[w] \in EdgeOps /\ pc[w] = "woken" /\ counter[MutexOf(wop[w])] # old[w])
           ~> (pc[w] = "done")

\* Both waiters were blocked in wait_until_frame with old = 0 and the signal
\* of the one Frame delivery has woken both.
C16_Witness ==
  /\ counter["mutex_frame"] = 1 /\ delivered["mutex_frame"] = 1 /\ es.pc = "idle"
  /\ \A w \in Waiters :
       pc[w] = "woken" /\ wop[w] = "wait_until_frame" /\ old[w] = 0


\* The counter mutex that belongs to each edge-triggered event.
OwnMutex ==
  [Frame |-> "mutex_frame", Images |-> "mutex_images",
   DeviceChange |-> "mutex_device_change"]

\* A step of the Event Source thread inside a handler of the internal listener.
HandlerStep == es.pc \in {"call", "locked", "notify"} /\ es' # es

\* The only change a signal makes: threads blocked on a Condvar are woken.
OnlySignals ==
  /\ \A w \in Waiters : pc'[w] # pc[w] => (pc[w] = "blocked" /\ pc'[w] = "woken")
  /\ wop' = wop /\ old' = old

\* C17: the handlers of the internal listener touch nothing but what is
\* theirs.  After construction, in which on_init has run if the listener was
\* accepted, every counter is 0 and no thread has been signalled; on_init and
\* on_exit have no Condvar and no counter, and the on_exit call of the
\* teardown changes no counter, no waiter and no mutex; a handler of one of
\* the six level-triggered events leaves every counter, every mutex and the
\* connection state as they are and does nothing but wake blocked threads;
\* the handlers of Frame,
\* Images and DeviceChange change no counter but their own, that one by +1,
\* lock no mutex but their own, and otherwise only wake blocked threads.
C17_HandlerFrame ==
  /\ counter = [m \in CounterMutexes |-> 0]
  /\ \A w \in Waiters : pc[w] = "idle"
  /\ [](\A h \in {"on_init", "on_exit"} : HookCondvar[h] = NoOne /\ HookMutex[h] = NoOne)
  /\ [][(ctrl = "dropping" /\ dropIdx' # dropIdx) =>
          /\ counter' = counter /\ delivered' = delivered /\ conn' = conn
          /\ mutexOwner' = mutexOwner /\ waitVars' = waitVars]_vars
  /\ [][(HandlerStep /\ es.ev \in LevelEvents) =>
          /\ counter' = counter /\ conn' = conn
          /\ mutexOwner' = mutexOwner
          /\ OnlySignals]_vars
  /\ [][(HandlerStep /\ es.ev \in EdgeEvents) =>
          /\ \A m \in CounterMutexes :
               m # OwnMutex[es.ev] => counter'[m] = counter[m]
          /\ \A m \in Mutexes :
               m # OwnMutex[es.ev] => mutexOwner'[m] = mutexOwner[m]
          /\ counter'[OwnMutex[es.ev]] \in
               {counter[OwnMutex[es.ev]], counter[OwnMutex[es.ev]] + 1}
          /\ es'.pc = "idle" =>
               counter'[OwnMutex[es.ev]] = delivered[OwnMutex[es.ev]]
          /\ conn' = conn
          /\ OnlySignals]_vars

\* A Frame and an Images event have been counted, a Connect event has been
\* handled, and the teardown has called on_exit of the internal listener.
C17_Witness ==
  /\ counter = [mutex_frame |-> 1, mutex_images |-> 1, mutex_device_change |-> 0]
  /\ delivered = counter /\ conn["device"]
  /\ ctrl = "dropping" /\ dropIdx = 2 /\ Len(native) = 1


\* The one event whose handler is to wake the threads of each wait.
AwaitedEvent ==
  [wait_until_service_connected |-> "ServiceConnect",
   wait_until_service_disconnected |-> "ServiceDisconnect",
   wait_until_device_connected |-> "Connect",
   wait_until_device_disconnected |-> "Disconnect",
   wait_until_focus_gained |-> "FocusGained",
   wait_until_focus_lost |-> "FocusLost",
   wait_until_frame |-> "Frame", wait_until_images |-> "Images",
   wait_until_device_change |-> "DeviceChange"]

\* C18: there are no cross-wakeups.  A handler step changes the position of a
\* waiting thread only if the event being delivered is the one that thread's
\* wait is about: a thread blocked in the wait of another class, of the other
\* family or of the opposite target is not woken by it; and the counter an
\* edge-triggered wait watches moves only in the handler of its own event, so
\* such a thread is not released by another event either.
C18_NoCrossWakeup ==
  /\ [][HandlerStep =>
          \A w \in Waiters :
            pc'[w] # pc[w] => (wop[w] # NoOne /\ AwaitedEvent[wop[w]] = es.ev)]_vars
  /\ [][\A w \in Waiters :
          (wop[w] \in EdgeOps /\ wop'[w] = wop[w]
             /\ counter'[MutexOf(wop[w])] # counter[MutexOf(wop[w])]) =>
            es.ev = AwaitedEvent[wop[w]]]_vars
  /\ [][\A w \in Waiters :
          (pc[w] = "blocked" /\ pc'[w] # "blocked") => pc'[w] = "woken"]_vars

\* The handler of a Frame event is about to signal while the thread is
\* blocked in wait_until_images and the device is connected.
C18_Witness ==
  /\ es.pc = "notify" /\ es.ev = "Frame" /\ conn["device"]
  /\ pc[Observer] = "blocked" /\ wop[Observer] = "wait_until_images"


\* The property each wait is about.
PropertyOf(op) == IF op \in LevelOps THEN Awaited[op].prop ELSE AwaitedEvent[op]

\* Thread w is trying to lock the mutex of its wait (woken on the Condvar,
\* or at the mutex.lock() after the trace statement) and thread v holds it.
ContendsWith(w, v) ==
  /\ w # v /\ pc[w] \in {"woken", "traced"} /\ wop[v] # NoOne
  /\ mutexOwner[MutexOf(wop[w])] = v

\* C19 (as stated): threads waiting on different properties never contend for
\* the same mutex.
C19_OneLockPerCondition ==
  \A w, v \in Waiters :
    ContendsWith(w, v) => PropertyOf(wop[w]) = PropertyOf(wop[v])

\* C19 (amended): each edge-triggered class has a mutex of its own, used with
\* its one Condvar, and the six level-triggered waits, each with a Condvar of
\* its own, all use the one common mutex.  Two different waits use the same
\* mutex exactly when both are level-triggered; a thread holds no mutex but
\* that of its wait, and the Event Source thread none but that of the event
\* it is counting; so a thread contends only with threads of its own
\* edge-triggered class, or, in a level-triggered wait, with threads of any
\* level-triggered wait.
C19_LockPerCounterCommonForLevels ==
  /\ \A op1, op2 \in LevelOps \cup EdgeOps :
       op1 # op2 =>
         /\ VarOf(op1) # VarOf(op2)
         /\ MutexOf(op1) = MutexOf(op2) <=> (op1 \in LevelOps /\ op2 \in LevelOps)
  /\ \A m \in Mutexes :
       /\ mutexOwner[m] \in Waiters => m = MutexOf(wop[mutexOwner[m]])
       /\ mutexOwner[m] = EsThread => m = OwnMutex[es.ev]
  /\ \A w, v \in Waiters :
       ContendsWith(w, v) =>
         \/ wop[w] = wop[v]
         \/ wop[w] \in LevelOps /\ wop[v] \in LevelOps
  /\ \A v \in Waiters :
       (es.pc = "call" /\ es.ev \in EdgeEvents /\ mutexOwner[OwnMutex[es.ev]] = v) =>
         AwaitedEvent[wop[v]] = es.ev

\* w2, woken in wait_until_focus_gained, needs the common mutex that w1 holds
\* in wait_until_service_connected, while the Event Source thread holds
\* mutex_frame.
C19_Witness ==
  /\ pc["w1"] = "waiting" /\ wop["w1"] = "wait_until_service_connected"
  /\ pc["w2"] = "woken" /\ wop["w2"] = "wait_until_focus_gained"
  /\ mutexOwner["mutex"] = "w1" /\ mutexOwner["mutex_frame"] = EsThread


\* The edge-triggered waits while the application registers a listener of its
\* own (one with a field, as MyListener of examples/listener.rs, accepted by
\* the native controller), which the Event Source then calls after the internal
\* one.
OneUser == CHOOSE L \in UserListeners : TRUE

\* The edge-triggered events the Event Source raises meanwhile.
MaxDeliveryEvents == 1

DeliveryNext ==
  \/ \E w \in Waiters, op \in EdgeOps : TraceTryLock(w, op)
  \/ \E w \in Waiters : TraceUnlock(w)
  \/ \E w \in Waiters, op \in EdgeOps : WaitUntilCounterLock(w, op)
  \/ \E w \in Waiters : WaitWhileCheck(w)
  \/ \E w \in Waiters : CondvarWait(w)
  \/ \E w \in Waiters : SpuriousWake(w)
  \/ \E w \in Waiters : Reacquire(w)
  \/ \E w \in Waiters : Return(w)
  \/ \E e \in EdgeEvents : SumCounters < MaxDeliveryEvents /\ Raise(e)
  \/ ManagedLock
  \/ ManagedIncrement
  \/ ManagedNotify
  \/ \E res \in Outcomes : AddListener(OneUser, "MyListener", TRUE, res)
  \/ \E res \in Outcomes : DispatchUser(res)

\* Scheduling as in FairEdgeSpec; a user hook that was called returns or panics.
FairDeliverySpec ==
  /\ Init /\ [][DeliveryNext]_vars
  /\ \A w \in Waiters :
       /\ WF_vars(TraceUnlock(w))
       /\ WF_vars(WaitWhileCheck(w))
       /\ WF_vars(CondvarWait(w))
       /\ WF_vars(Reacquire(w))
  /\ WF_vars(ManagedLock)
  /\ WF_vars(ManagedIncrement)
  /\ WF_vars(ManagedNotify)
  /\ WF_vars(\E res \in Outcomes : DispatchUser(res))


\* The Event Source thread is inside a handler of the internal listener.
InInternalHandler ==
  \/ es.pc \in {"locked", "notify"}
  \/ es.pc = "call" /\ Managed \in Receivers(native[es.idx])

Holds(t) == {m \in Mutexes : mutexOwner[m] = t}

\* C20 as stated: no thread holds a mutex of the shared state while it is
\* blocked on a Condvar or calls a user listener's hook, so every handler of
\* the internal listener that the Event Source thread has entered completes
\* (unless a panic of a user hook aborts the process).
C20_HandlerCompletes ==
  /\ [](\A w \in Waiters :
          /\ pc[w] \in {"blocked", "woken", "idle", "traced", "done"} => Holds(w) = {}
          /\ Cardinality(Holds(w)) <= 1)
  /\ [](es.pc \in {"idle", "call"} => Holds(EsThread) = {})
  /\ InInternalHandler ~> (~InInternalHandler \/ aborted)

\* C20: event delivery cannot deadlock against waiters.  A thread blocked on a
\* Condvar, or woken and not yet running, or between the trace statement and
\* the lock, holds no mutex of the shared state, and a thread holds a mutex
\* only in the steps between locking it and the next block or return (those
\* of the logger formatting the trace record included); the Event Source
\* thread holds none between handlers, and so none while it
\* calls a user listener's hook (the only other hook calls are the on_init
\* calls made by the thread inside add_listener, which is in no wait and locks
\* nothing); a counting handler goes on only by locking its counter mutex
\* when no thread holds it; and if the mutex is granted to every thread that
\* finds it free again and again then, unless a panic of a user hook aborts
\* the process, every handler of the internal listener that the Event Source
\* thread has entered completes.
C20_DeliveryNeverDeadlocks ==
  /\ [](\A w \in Waiters :
          /\ pc[w] \in {"blocked", "woken", "idle", "traced", "done"} => Holds(w) = {}
          /\ Holds(w) # {} => pc[w] \in {"tracing", "locked", "waiting"}
          /\ Cardinality(Holds(w)) <= 1)
  /\ [](es.pc \in {"idle", "call"} => Holds(EsThread) = {})
  /\ [][(calls' # calls /\ used' = used) =>
          (es.pc = "call" /\ Holds(EsThread) = {})]_vars
  /\ [][(es.pc = "call" /\ es'.pc = "locked") =>
          /\ mutexOwner[OwnMutex[es.ev]] = NoOne
          /\ mutexOwner'[OwnMutex[es.ev]] = EsThread]_vars
  /\ MutexGranted => (InInternalHandler ~> (~InInternalHandler \/ aborted))

\* The Event Source thread, delivering a Frame event, needs mutex_frame while
\* a waiter holds it and the other is blocked; a user listener is registered
\* and will be called next.
C20_Witness ==
  /\ es.pc = "call" /\ es.ev = "Frame" /\ InInternalHandler /\ Len(native) = 2
  /\ mutexOwner["mutex_frame"] = "w1" /\ pc["w1"] = "locked"
  /\ pc["w2"] = "blocked" /\ wop["w2"] = "wait_until_frame"

\* C14: frame_at(h) returns a Frame for every h, never an error; for h above
\* 59 (60 .. 255) the Frame is invalid whatever the history holds; for h in
\* 0 .. 59 the Frame is valid exactly when the history holds a frame of that
\* age.
C14_FrameAtHistoryBoundary ==
  lastFrame # NoFrame =>
    /\ lastFrame.result = "Frame"
    /\ lastFrame.requested \in 60 .. 255 => ~lastFrame.valid
    /\ lastFrame.requested \in 0 .. 59 =>
         (lastFrame.valid <=> lastFrame.requested < lastFrame.held)

\* With a full history of 60 frames, frame_at(60) returned an invalid Frame.
C14_Witness ==
  /\ lastFrame # NoFrame /\ lastFrame.result = "Frame"
  /\ lastFrame.requested = 60 /\ lastFrame.held = 60 /\ ~lastFrame.valid


\* The registrations of the internal listener the native controller holds.
InternalRegistrations == {i \in DOMAIN native : Receivers(native[i]) = {Managed}}

\* C21: once ManagedController::new has returned, and until the Controller is
\* dropped, exactly one internal listener is registered: the native controller
\* holds one registration of it, the first, and the Controller keeps its
\* handle; and whenever the Event Source is outside the handlers each counter
\* equals the number of deliveries of its event to it.
C21_InternalListenerRegistered ==
  ctrl = "live" =>
    /\ Cardinality(InternalRegistrations) = 1
    /\ 1 \in InternalRegistrations
    /\ listeners # <<>> /\ Receivers(listeners[1].sys) = {Managed}
    /\ es.pc \in {"idle", "call"} => counter = delivered


\* C22: the listener instances and the session outlive every hook call.  While
\* the Controller is not dropped every registration the native controller
\* holds points at a live instance, whose handle the Controller keeps (unless
\* a panic in on_init aborted the process before the handle was pushed); an
\* instance is dropped only in the step that ends the teardown, after the
\* native destructor has delivered its last on_exit; every hook is invoked on
\* an instance that is live when the call is made; and once the
\* Controller is dropped nothing is registered, no hook is invoked and the
\* Event Source delivers nothing.
C22_ListenersOutliveHooks ==
  /\ [](ctrl # "dropped" =>
          /\ \A i \in DOMAIN native : LiveTarget(native[i])
          /\ \A i \in DOMAIN listeners : listeners[i].sys = native[i]
          /\ ~aborted => Len(listeners) = Len(native))
  /\ [](ctrl = "dropped" => native = <<>> /\ listeners = <<>> /\ es.pc = "idle")
  /\ [][((\E a \in Addrs : heap[a] # Free /\ heap'[a] = Free)
          \/ ~(zeroSized \subseteq zeroSized')) =>
            /\ ctrl = "dropping" /\ ctrl' = "dropped"
            /\ dropIdx > Len(native)]_vars
  /\ [][calls' # calls =>
          /\ ctrl # "dropped"
          /\ Len(calls') = Len(calls) + 1
          /\ \/ calls'[Len(calls')].listener \in zeroSized'
             \/ \E a \in Addrs : heap'[a] = calls'[Len(calls')].listener]_vars
  /\ [][ctrl = "dropped" => (calls' = calls /\ raised' = raised /\ es' = es)]_vars

\* The teardown of a Controller with two user listeners, one of a zero-sized
\* type, has delivered both on_exit calls and the listeners are still live:
\* the destructor has not yet returned.
C22_Witness ==
  /\ ctrl = "dropping" /\ dropIdx > Len(native) /\ Len(native) = 3
  /\ ExitCount("L1") = 1 /\ ExitCount("L2") = 1
  /\ \E a \in Addrs : heap[a] = "L1"
  /\ "L2" \in zeroSized

\* C23: duration_since(earlier) returns exactly self - earlier microseconds
\* whenever self >= earlier as signed raw timestamps, and panics exactly when
\* earlier > self, negative raw values included.
C23_DurationSinceSigned ==
  tsCall # NoCall =>
    /\ tsCall.self >= tsCall.earlier =>
         (tsCall.result = "ok" /\ tsCall.micros = tsCall.self - tsCall.earlier)
    /\ tsCall.earlier > tsCall.self => tsCall.result = "panic"

Min(a, b) == IF a <= b THEN a ELSE b

\* C24: an iterator over a list of length n has, after any number of next()
\* calls, fetched the indices 0, 1, ... in that order, each once, one per call
\* up to n of them and none that is n or more; a call returned None exactly
\* when it came after the n-th, and None never moves the position back.
C24_IteratorYieldsEachOnce ==
  iter # NoIter =>
    LET k == Min(iter.calls, iter.len) IN
    /\ iter.fetched = [i \in 1 .. k |-> i - 1]
    /\ iter.next = k
    /\ \A i \in DOMAIN iter.fetched : iter.fetched[i] < iter.len
    /\ iter.calls > 0 => (iter.last = "None" <=> iter.calls > iter.len)
    /\ iter.calls = 0 => iter.last = NoOne

\* An iterator over two images was called four times: it fetched 0 and 1 and
\* then returned None twice.
C24_Witness ==
  /\ iter # NoIter /\ iter.len = 2 /\ iter.calls = 4
  /\ iter.fetched = <<0, 1>> /\ iter.last = "None"


\* The one mutex each Condvar of the shared state is to be used with.
FixedMutex ==
  [frame |-> "mutex_frame", images |-> "mutex_images",
   device_change |-> "mutex_device_change",
   service_connect |-> "mutex", service_disconnect |-> "mutex",
   device_connect |-> "mutex", device_disconnect |-> "mutex",
   focus_gained |-> "mutex", focus_lost |-> "mutex"]

InWait(w) == pc[w] \in {"locked", "waiting", "blocked", "woken"}

\* C25: every Condvar is used with one fixed mutex.  A thread in a wait uses
\* the fixed mutex of the Condvar it waits on, and holds it whenever it tests
\* its condition or is about to block; a thread in an edge-triggered wait uses
\* the mutex that guards the counter of its event and the Condvar that the
\* handler of that event notifies, and the handler locks that same mutex; a
\* thread in a level-triggered wait uses the common mutex.
C25_FixedPairing ==
  /\ \A w \in Waiters :
       InWait(w) =>
         /\ MutexOf(wop[w]) = FixedMutex[VarOf(wop[w])]
         /\ pc[w] \in {"locked", "waiting"} =>
              mutexOwner[FixedMutex[VarOf(wop[w])]] = w
         /\ wop[w] \in LevelOps => MutexOf(wop[w]) = "mutex"
         /\ wop[w] \in EdgeOps =>
              LET e == AwaitedEvent[wop[w]] IN
              /\ MutexOf(wop[w]) = OwnMutex[e]
              /\ MutexOf(wop[w]) = HookMutex[ExpectedHook[e]]
              /\ VarOf(wop[w]) = HookCondvar[ExpectedHook[e]]
  /\ es.pc \in {"locked", "notify"} =>
       /\ es.hook = ExpectedHook[es.ev]
       /\ HookMutex[es.hook] = OwnMutex[es.ev]
       /\ HookMutex[es.hook] = FixedMutex[HookCondvar[es.hook]]
       /\ es.pc = "locked" => mutexOwner[OwnMutex[es.ev]] = EsThread

\* on_images is about to notify the images Condvar, on which w1 is blocked in
\* wait_until_images, while w2 is about to block in wait_until_focus_gained
\* with the common mutex.
C25_Witness ==
  /\ es.pc = "notify" /\ es.ev = "Images"
  /\ pc["w1"] = "blocked" /\ wop["w1"] = "wait_until_images"
  /\ pc["w2"] = "waiting" /\ wop["w2"] = "wait_until_focus_gained"

====
